---------------------------- MODULE Spec2Model ----------------------------
(***************************************************************************)
(* GetADPSO.py: enumeration of Active Directory password settings objects. *)
(*                                                                         *)
(* The program is one sequential control flow (__main__) that calls three  *)
(* query families in a fixed order: get_group_pso, get_user_attributes,    *)
(* get_pso_details.  Each family binds (LDAP on 389, then LDAPS on 636),   *)
(* searches, projects the returned entries and unbinds.  The directory and *)
(* the ldap3 library are the environment: every bind and search outcome    *)
(* and every shape of a returned entry is a nondeterministic input.        *)
(*                                                                         *)
(* Strings the code takes apart (domain names, distinguished names) are    *)
(* sequences of one-character strings.                                     *)
(***************************************************************************)
EXTENDS Integers, Sequences, FiniteSets, TLC

VARIABLES
    pc,           \* position of the control flow
    fam,          \* index in Families of the family being run (0: none yet)
    attempts,     \* calls of create_connection made by the current family
    conn,         \* the family's local `conn`: "None", "bound" or "closed"
    open,         \* families whose session is bound and not yet unbound
    searchResult, \* "none" (not issued), "ok", "fail" (search returned False)
    entries,      \* conn.entries
    idx,          \* position of the projection loop in conn.entries
    results,      \* the family's local `results`
    widths,       \* <<max_*_length, max_pso_length>>
    out,          \* what the family printed
    exc,          \* the exception raised and not handled in the family
    nanoSec,      \* clock input: whole seconds of |nano|
    nanoRem,      \* clock input: |nano| modulo 10,000,000
    clockOut,     \* clock result
    domain,       \* --domain argument
    base,         \* base_creator(domain)
    inlineBase,   \* 'DC=' + ',DC='.join(domain.split('.'))
    dnName,       \* first RDN value of a PSO distinguished name
    dnRest,       \* the remaining RDNs of it
    psoName       \* the extracted pso_name

mainVars == <<pc, fam, attempts, conn, open, searchResult, entries, idx,
              results, widths, out, exc>>
clockVars == <<nanoSec, nanoRem, clockOut>>
baseVars == <<domain, base, inlineBase>>
psoVars == <<dnName, dnRest, psoName>>
pureVars == <<clockVars, baseVars, psoVars>>
vars == <<mainVars, pureVars>>

---------------------------------------------------------------------------
(* Bounds of the model.                                                    *)

\* longest conn.entries a search returns
MaxEntries == 2
\* longest --domain argument, in characters
MaxDomainLen == 4
\* longest PSO name, in characters or escaped characters
MaxNameLen == 3

---------------------------------------------------------------------------
(* str.split and str.join.                                                 *)

RECURSIVE SplitFrom(_, _, _, _)
SplitFrom(s, c, i, cur) ==
    IF i > Len(s) THEN <<cur>>
    ELSE IF s[i] = c THEN <<cur>> \o SplitFrom(s, c, i + 1, <<>>)
    ELSE SplitFrom(s, c, i + 1, Append(cur, s[i]))

\* s.split(c) for a one-character separator c
Split(s, c) == SplitFrom(s, c, 1, <<>>)

RECURSIVE Join(_, _)
\* sep.join(parts)
Join(parts, sep) ==
    IF Len(parts) = 0 THEN <<>>
    ELSE IF Len(parts) = 1 THEN parts[1]
    ELSE parts[1] \o sep \o Join(Tail(parts), sep)

RECURSIVE SeqsUpTo(_, _)
\* the sequences over S of length at most n
SeqsUpTo(S, n) ==
    IF n = 0 THEN {<<>>}
    ELSE LET shorter == SeqsUpTo(S, n - 1)
         IN  shorter \cup {Append(s, x) : s \in shorter, x \in S}

Max(a, b) == IF a >= b THEN a ELSE b

---------------------------------------------------------------------------
(* Directory entries as ldap3 presents them.  An attribute of an entry is  *)
(* either not in the entry (`name in entry` is False and entry[name]       *)
(* raises), in the entry with no value (the attribute is falsy and .value  *)
(* is None), or in the entry with its values.                              *)

Absent == [present |-> FALSE, values |-> <<>>]
Empty == [present |-> TRUE, values |-> <<>>]
Val(v) == [present |-> TRUE, values |-> <<v>>]

\* `name in entry`
In(entry, name) == entry[name].present
\* `name in entry and entry[name]`
InAndTruthy(entry, name) == entry[name].present /\ Len(entry[name].values) > 0
\* entry[name].value is None
ValueIsNone(entry, name) == Len(entry[name].values) = 0
\* entry[name].value, str(entry[name]) of a single-valued attribute
Value(entry, name) == entry[name].values[1]

Families == <<"groups", "users", "details">>

\* the name column and the PSO column each family reads
NameAttr(f) == IF f = "groups" THEN "cn" ELSE "sAMAccountName"
PsoAttr(f) == IF f = "groups" THEN "msDS-PSOApplied" ELSE "msDS-ResultantPSO"
Header(f) == IF f = "groups" THEN <<"G","r","o","u","p","s">>
             ELSE <<"U","s","e","r","s">>

DetailAttrs ==
    {"name", "msds-lockoutthreshold", "msds-psoappliesto",
     "msds-minimumpasswordlength", "msds-passwordhistorylength",
     "msds-lockoutobservationwindow", "msds-lockoutduration",
     "msds-passwordsettingsprecedence", "msds-passwordcomplexityenabled",
     "description", "msds-passwordreversibleencryptionenabled",
     "msds-minimumpasswordage", "msds-maximumpasswordage"}

\* read as entry[name].value with no membership test
UncheckedAttrs ==
    {"name", "msds-minimumpasswordlength", "msds-passwordhistorylength",
     "msds-lockoutthreshold", "msds-passwordcomplexityenabled",
     "msds-passwordreversibleencryptionenabled",
     "msds-passwordsettingsprecedence"}

\* read as clock(int(entry[name].value)) if name in entry else 'N/A'
IntervalAttrs ==
    {"msds-lockoutobservationwindow", "msds-lockoutduration",
     "msds-minimumpasswordage", "msds-maximumpasswordage"}

\* printed only if name in entry
OptionalAttrs == {"description", "msds-psoappliesto"}

---------------------------------------------------------------------------
(* clock(nano).  nano = -(sec * 10,000,000 + rem) with 0 <= rem <          *)
(* 10,000,000 is given as the pair (sec, rem): the tick counts of interest *)
(* exceed the integers of the model checker.                               *)

TicksPerSecond == 10000000
\* significand of a Python float (IEEE-754 binary64)
MantissaBits == 53

RECURSIVE Log2(_)
\* floor(log2(n)), n >= 1
Log2(n) == IF n <= 1 THEN 0 ELSE 1 + Log2(n \div 2)

RECURSIVE Shr(_, _)
\* x floor-divided by 2^m
Shr(x, m) == IF m <= 0 \/ x = 0 THEN x ELSE Shr(x \div 2, m - 1)

(* int(abs(nano / 10000000)).  `/` is true division: the exact quotient    *)
(* sec + rem/10^7 is rounded to the nearest float (ties to even) and int() *)
(* truncates that float.  For 2^e <= sec < 2^(e+1) the floats in           *)
(* [sec, sec+1] are 2^(e-52) apart, so the quotient rounds up to sec + 1   *)
(* exactly when (10^7 - rem)/10^7 <= 2^(e-53).                             *)
TrueDivTrunc(sec, rem) ==
    IF sec >= 1 /\ TicksPerSecond - rem
                     <= Shr(TicksPerSecond, MantissaBits - Log2(sec))
    THEN sec + 1
    ELSE sec

(* relativedelta(seconds=sec): _fix() carries seconds over 59 into         *)
(* minutes, minutes over 59 into hours, hours over 23 into days.           *)
relativedelta(sec) ==
    LET seconds == sec % 60
        minutes0 == sec \div 60
        minutes == minutes0 % 60
        hours0 == minutes0 \div 60
        hours == hours0 % 24
        days == hours0 \div 24
    IN  [days |-> days, hours |-> hours, minutes |-> minutes,
         seconds |-> seconds]

\* the fields fmt.format prints, in order
clock(sec, rem) == relativedelta(TrueDivTrunc(sec, rem))

---------------------------------------------------------------------------
(* base_creator and the inline search base.                                *)

DCPrefix == <<"D", "C", "=">>

\* a base whose first label alone gets the DC= prefix
base_creator_prefixOnce(d) == DCPrefix \o Join(Split(d, "."), <<",">>)
\* ','.join([f"DC={part}" for part in domain.split('.')])
base_creator(d) ==
    LET parts == Split(d, ".")
    IN  Join([i \in 1..Len(parts) |-> DCPrefix \o parts[i]], <<",">>)

\* 'DC=' + ',DC='.join(domain.split('.'))
InlineBase(d) == DCPrefix \o Join(Split(d, "."), <<",">> \o DCPrefix)

\* msds_resultant_pso.split(',')[0].split('=')
PsoNameParts(s) == Split(Split(s, ",")[1], "=")
\* ...[1] raises IndexError when the first component holds no '='
PsoNameRaises(s) == Len(PsoNameParts(s)) < 2
pso_name(s) == PsoNameParts(s)[2]

---------------------------------------------------------------------------
(* What the directory can answer.                                          *)

\* outcomes of Server(...) + Connection(..., auto_bind=True)
BindOutcomes ==
    {"ok", "LDAPSocketOpenError", "LDAPBindError", "LDAPCommunicationError"}

CNPrefix == <<"C", "N", "=">>
DnTail == <<"C","N","=","S","y","s","t","e","m",",","D","C","=","x">>
SampleNames == {<<"u", "1">>, <<"a","d","m","i","n","s","7">>}
SamplePsoDNs == {CNPrefix \o <<"a">> \o <<",">> \o DnTail,
                 CNPrefix \o <<"S","t","r","i","c","t">> \o <<",">> \o DnTail}
\* a FILETIME interval of -600000000 ticks
SampleInterval == [sec |-> 60, rem |-> 0]

\* entries of the groups and of the users search
TableEntries(f) ==
    {[a \in {NameAttr(f), PsoAttr(f)} |->
        IF a = NameAttr(f) THEN n ELSE p] :
        n \in {Absent, Empty} \cup {Val(v) : v \in SampleNames},
        p \in {Absent, Empty} \cup {Val(v) : v \in SamplePsoDNs}}

FullDetailEntry ==
    [a \in DetailAttrs |->
        IF a \in IntervalAttrs THEN Val(SampleInterval) ELSE Val(<<"v">>)]

\* entries of the policy search: complete, or lacking one attribute
DetailEntries ==
    {FullDetailEntry} \cup
    {[FullDetailEntry EXCEPT ![a] = s] :
        a \in DetailAttrs, s \in {Absent, Empty}}

EntriesOf(f) == IF f = "details" THEN DetailEntries ELSE TableEntries(f)

---------------------------------------------------------------------------
(* create_connection and the tests on its result.                          *)

create_connection(outcome) ==
    [conn |-> IF outcome = "ok" THEN "bound" ELSE "None",
     raised |-> IF outcome \in {"ok", "LDAPSocketOpenError", "LDAPBindError"}
                THEN "none" ELSE outcome]

\* a family that never falls back to LDAPS
FallbackNever(c) == FALSE
\* the first `if not conn:` of a family
FallbackNeeded(c) == c = "None"
\* a family that goes on without a session
GiveUpNever(c) == FALSE
\* the second `if not conn:` of a family
GiveUp(c) == c = "None"

\* an unbind that leaves the session bound
UnbindNothing(sessions, f) == sessions
\* conn.unbind()
Unbind(sessions, f) == sessions \ {f}

NoOutput == [kind |-> "none", rows |-> <<>>]

---------------------------------------------------------------------------
(* The projections.                                                        *)

NoRow(e) == [raised |-> e, rows |-> <<>>]

\* one pass of the loop body of get_group_pso / get_user_attributes
ProjectRow(f, entry) ==
    IF ~InAndTruthy(entry, PsoAttr(f)) THEN NoRow("none")
    ELSE IF f = "groups" /\ ~In(entry, "cn") THEN NoRow("LDAPCursorError")
    ELSE IF PsoNameRaises(Value(entry, PsoAttr(f))) THEN NoRow("IndexError")
    ELSE IF In(entry, NameAttr(f)) /\ ValueIsNone(entry, NameAttr(f))
         THEN NoRow("TypeError")
    ELSE [raised |-> "none",
          rows |-> <<[name |-> IF In(entry, NameAttr(f))
                               THEN Value(entry, NameAttr(f))
                               ELSE <<"N", "/", "A">>,
                      pso |-> pso_name(Value(entry, PsoAttr(f)))]>>]

NoDuration == [days |-> 0, hours |-> 0, minutes |-> 0, seconds |-> 0]
Line(text) == [text |-> text, duration |-> NoDuration]

\* the printed line of one attribute of a policy entry
RenderDetail(entry, a) ==
    IF a \in IntervalAttrs
    THEN IF In(entry, a)
         THEN [text |-> "clock",
               duration |-> clock(Value(entry, a).sec, Value(entry, a).rem)]
         ELSE Line("N/A")
    ELSE IF a \in OptionalAttrs /\ ~In(entry, a) THEN Line("omitted")
    ELSE IF ValueIsNone(entry, a) THEN Line("None")
    ELSE Line("value")

\* the attributes in the order the loop body prints them
DetailLines ==
    <<"name", "description", "msds-minimumpasswordlength",
      "msds-passwordhistorylength", "msds-lockoutthreshold",
      "msds-lockoutobservationwindow", "msds-lockoutduration",
      "msds-passwordcomplexityenabled", "msds-minimumpasswordage",
      "msds-maximumpasswordage", "msds-passwordreversibleencryptionenabled",
      "msds-passwordsettingsprecedence", "msds-psoappliesto">>

\* what printing attribute a raises: entry[a] of an attribute not in the
\* entry, int(None) of an interval in the entry with no value
DetailRaises(entry, a) ==
    IF a \in UncheckedAttrs /\ ~In(entry, a) THEN "LDAPKeyError"
    ELSE IF a \in IntervalAttrs /\ In(entry, a) /\ ValueIsNone(entry, a)
         THEN "TypeError"
    ELSE "none"

\* one pass of the loop body of get_pso_details (a block counts as printed
\* when all its lines are)
ProjectDetail(entry) ==
    LET bad == {i \in 1..Len(DetailLines) :
                    DetailRaises(entry, DetailLines[i]) # "none"}
    IN  IF bad # {}
        THEN LET first == CHOOSE i \in bad : \A j \in bad : i <= j
             IN  NoRow(DetailRaises(entry, DetailLines[first]))
        ELSE [raised |-> "none",
              rows |-> <<[a \in DetailAttrs |-> RenderDetail(entry, a)]>>]

Project(f, entry) ==
    IF f = "details" THEN ProjectDetail(entry) ELSE ProjectRow(f, entry)

\* max(max_*_length, len(...)) over the rows appended
NewWidths(f, w, rows) ==
    IF f = "details" \/ rows = <<>> THEN w
    ELSE <<Max(w[1], Len(rows[1].name)), Max(w[2], Len(rows[1].pso))>>

\* where an exception raised in family f lands: only get_pso_details is
\* called inside try/except
Landing(f) == IF f = "details" THEN "caught" ELSE "crashed"

---------------------------------------------------------------------------
(* The run of __main__.                                                    *)

MainInit ==
    /\ pc = "main"
    /\ fam = 0
    /\ attempts = <<>>
    /\ conn = "None"
    /\ open = {}
    /\ searchResult = "none"
    /\ entries = <<>>
    /\ idx = 0
    /\ results = <<>>
    /\ widths = <<0, 0>>
    /\ out = NoOutput
    /\ exc = "none"

ClockIdle == nanoSec = 0 /\ nanoRem = 0 /\ clockOut = NoDuration
BaseIdle == domain = <<>> /\ base = <<>> /\ inlineBase = <<>>
PsoIdle == dnName = <<>> /\ dnRest = <<>> /\ psoName = <<>>

Init == MainInit /\ ClockIdle /\ BaseIdle /\ PsoIdle

\* an exception leaves the family: nothing after the raising line runs
Raise(e) ==
    /\ exc' = e
    /\ pc' = Landing(Families[fam])

\* __main__ prints the section title and calls the next family, whose
\* locals are fresh
CallFamily ==
    /\ pc \in {"main", "returned"}
    /\ fam < Len(Families)
    /\ fam' = fam + 1
    /\ pc' = "bind389"
    /\ attempts' = <<>>
    /\ conn' = "None"
    /\ searchResult' = "none"
    /\ entries' = <<>>
    /\ idx' = 0
    /\ results' = <<>>
    /\ widths' = <<0, 0>>
    /\ out' = NoOutput
    /\ UNCHANGED <<open, exc, pureVars>>

\* conn = create_connection(server_address_ldap, user, password)
Bind389 ==
    /\ pc = "bind389"
    /\ \E o \in BindOutcomes :
        LET r == create_connection(o)
        IN  /\ attempts' = Append(attempts, [port |-> 389, use_ssl |-> FALSE,
                                             outcome |-> o])
            /\ conn' = r.conn
            /\ open' = IF r.conn = "bound" THEN open \cup {fam} ELSE open
            /\ IF r.raised # "none"
               THEN Raise(r.raised) /\ out' = out
               ELSE /\ exc' = exc
                    /\ IF FallbackNeeded(r.conn)
                       THEN pc' = "bind636" /\ out' = out
                       ELSE IF GiveUp(r.conn)
                            THEN /\ pc' = "returned"
                                 /\ out' = [kind |-> "bothFailed",
                                            rows |-> <<>>]
                            ELSE pc' = "search" /\ out' = out
    /\ UNCHANGED <<fam, searchResult, entries, idx, results, widths,
                   pureVars>>

\* conn = create_connection(server_address_ldaps, ..., use_ssl=True) and the
\* second `if not conn:`
Bind636 ==
    /\ pc = "bind636"
    /\ \E o \in BindOutcomes :
        LET r == create_connection(o)
        IN  /\ attempts' = Append(attempts, [port |-> 636, use_ssl |-> TRUE,
                                             outcome |-> o])
            /\ conn' = r.conn
            /\ open' = IF r.conn = "bound" THEN open \cup {fam} ELSE open
            /\ IF r.raised # "none"
               THEN Raise(r.raised) /\ out' = out
               ELSE /\ exc' = exc
                    /\ IF GiveUp(r.conn)
                       THEN /\ pc' = "returned"
                            /\ out' = [kind |-> "bothFailed", rows |-> <<>>]
                       ELSE pc' = "search" /\ out' = out
    /\ UNCHANGED <<fam, searchResult, entries, idx, results, widths,
                   pureVars>>

\* conn.search(...) and the initialisation of the loop's locals
Search ==
    /\ pc = "search"
    /\ LET f == Families[fam]
       IN  IF conn = "None"
           THEN \* None has no attribute 'search'
                /\ Raise("AttributeError")
                /\ UNCHANGED <<searchResult, entries, idx, widths>>
           ELSE \/ /\ \E es \in SeqsUpTo(EntriesOf(f), MaxEntries) :
                        /\ entries' = es
                        /\ searchResult' = "ok"
                   /\ idx' = 1
                   /\ widths' = IF f = "details" THEN widths
                                ELSE <<Len(Header(f)), Len(<<"P","S","O">>)>>
                   /\ pc' = "project"
                   /\ exc' = exc
                \/ \* the search is refused: search returns False, no entries
                   /\ entries' = <<>>
                   /\ searchResult' = "fail"
                   /\ idx' = 1
                   /\ widths' = IF f = "details" THEN widths
                                ELSE <<Len(Header(f)), Len(<<"P","S","O">>)>>
                   /\ pc' = "project"
                   /\ exc' = exc
                \/ \* the connection breaks while sending or receiving
                   /\ Raise("LDAPCommunicationError")
                   /\ UNCHANGED <<searchResult, entries, idx, widths>>
    /\ UNCHANGED <<fam, attempts, conn, open, results, out, pureVars>>

\* one iteration of `for entry in conn.entries:`
ProjectEntry ==
    /\ pc = "project"
    /\ idx <= Len(entries)
    /\ LET f == Families[fam]
           r == Project(f, entries[idx])
       IN  IF r.raised # "none"
           THEN /\ Raise(r.raised)
                /\ UNCHANGED <<idx, results, widths, out>>
           ELSE /\ idx' = idx + 1
                /\ widths' = NewWidths(f, widths, r.rows)
                /\ IF f = "details"
                   THEN /\ out' = [kind |-> "blocks",
                                   rows |-> out.rows \o r.rows]
                        /\ results' = results
                   ELSE /\ results' = results \o r.rows
                        /\ out' = out
                /\ UNCHANGED <<pc, exc>>
    /\ UNCHANGED <<fam, attempts, conn, open, searchResult, entries,
                   pureVars>>

\* after the loop: the table (or the warning of get_pso_details) is printed
\* and conn.unbind() is called
Finish ==
    /\ pc = "project"
    /\ idx > Len(entries)
    /\ LET f == Families[fam]
       IN  out' = IF f = "details"
                  THEN IF Len(entries) > 0 THEN out
                       ELSE [kind |-> "warning", rows |-> <<>>]
                  ELSE [kind |-> "table", rows |-> results]
    /\ conn' = "closed"
    /\ open' = Unbind(open, fam)
    /\ pc' = "returned"
    /\ UNCHANGED <<fam, attempts, searchResult, entries, idx, results,
                   widths, exc, pureVars>>

\* the end of __main__: after the last family returned, or after its
\* exception was caught and reported
Exit ==
    /\ \/ pc = "returned" /\ fam = Len(Families)
       \/ pc = "caught"
    /\ pc' = "done"
    /\ UNCHANGED <<fam, attempts, conn, open, searchResult, entries, idx,
                   results, widths, out, exc, pureVars>>

Next == CallFamily \/ Bind389 \/ Bind636 \/ Search \/ ProjectEntry
        \/ Finish \/ Exit

Spec == Init /\ [][Next]_vars

---------------------------------------------------------------------------
(* clock applied to sampled tick counts.                                   *)

\* whole seconds of |nano|: around each carry of the decomposition and
\* around the powers of two where the float quotient loses a bit
ClockSecs ==
    {0, 1, 59, 60, 61, 3599, 3600, 3661, 86399, 86400, 90061, 31536000,
     536870911, 536870912, 1073741823, 1073741824, 2000000000}
\* |nano| modulo 10,000,000
ClockRems == {0, 1, 4999999, 5000000, 9999998, 9999999}

ClockInit ==
    /\ MainInit /\ BaseIdle /\ PsoIdle
    /\ nanoSec \in ClockSecs
    /\ nanoRem \in ClockRems
    /\ clockOut = NoDuration

\* clock(nano) is called
Decode ==
    /\ pc = "main"
    /\ pc' = "decoded"
    /\ clockOut' = clock(nanoSec, nanoRem)
    /\ UNCHANGED <<fam, attempts, conn, open, searchResult, entries, idx,
                   results, widths, out, exc, nanoSec, nanoRem, baseVars,
                   psoVars>>

ClockSpec == ClockInit /\ [][Decode]_vars

---------------------------------------------------------------------------
(* The two derivations of the search base applied to domain names.         *)

DomainChars == {"a", "b", "."}

BaseInit ==
    /\ MainInit /\ ClockIdle /\ PsoIdle
    /\ domain \in SeqsUpTo(DomainChars, MaxDomainLen)
    /\ base = <<>>
    /\ inlineBase = <<>>

\* both derivations are computed for the domain
DeriveBase ==
    /\ pc = "main"
    /\ pc' = "derived"
    /\ base' = base_creator(domain)
    /\ inlineBase' = InlineBase(domain)
    /\ UNCHANGED <<fam, attempts, conn, open, searchResult, entries, idx,
                   results, widths, out, exc, domain, clockVars, psoVars>>

BaseSpec == BaseInit /\ [][DeriveBase]_vars

---------------------------------------------------------------------------
(* The PSO name extraction applied to distinguished names CN=<name>,<rest> *)
(* as the directory writes them: ',' and '=' inside a value are escaped    *)
(* with a backslash.                                                       *)

NameUnits == {<<"a">>, <<"b">>, <<"\\", "=">>, <<"\\", ",">>}

RECURSIVE Flatten(_)
Flatten(ss) == IF ss = <<>> THEN <<>> ELSE Head(ss) \o Flatten(Tail(ss))

PsoNames ==
    {Flatten(us) : us \in SeqsUpTo(NameUnits, MaxNameLen) \ {<<>>}}

PsoInit ==
    /\ MainInit /\ ClockIdle /\ BaseIdle
    /\ dnName \in PsoNames
    /\ dnRest \in {DnTail, <<"D","C","=","x">>}
    /\ psoName = <<>>

\* pso_name = msds_resultant_pso.split(',')[0].split('=')[1]
ExtractPso ==
    /\ pc = "main"
    /\ LET dn == CNPrefix \o dnName \o <<",">> \o dnRest
       IN  IF PsoNameRaises(dn)
           THEN pc' = "crashed" /\ exc' = "IndexError" /\ psoName' = psoName
           ELSE pc' = "extracted" /\ exc' = exc /\ psoName' = pso_name(dn)
    /\ UNCHANGED <<fam, attempts, conn, open, searchResult, entries, idx,
                   results, widths, out, dnName, dnRest, clockVars,
                   baseVars>>

PsoSpec == PsoInit /\ [][ExtractPso]_vars

---------------------------------------------------------------------------
(* Properties of the run of __main__ (Spec).                               *)

\* the family being run
Current == IF fam = 0 THEN "none" ELSE Families[fam]

BindFailed(a) == a.outcome \in {"LDAPSocketOpenError", "LDAPBindError"}
BothBindsFailed ==
    Len(attempts) = 2 /\ BindFailed(attempts[1]) /\ BindFailed(attempts[2])
Exited == pc \in {"returned", "crashed", "caught", "done"}

\* C1: a family binds on 389 first; it binds on 636, once, exactly when the
\* 389 attempt failed with a socket-open or bind error; it never makes more
\* than two attempts; and when both fail its session is None.
C1_PlaintextThenEncryptedOnce ==
    /\ Len(attempts) <= 2
    /\ Len(attempts) >= 1 =>
          attempts[1].port = 389 /\ ~attempts[1].use_ssl
    /\ Len(attempts) = 2 =>
          /\ attempts[2].port = 636 /\ attempts[2].use_ssl
          /\ BindFailed(attempts[1])
    /\ (Len(attempts) >= 1 /\ BindFailed(attempts[1]) /\ pc # "bind636") =>
          Len(attempts) = 2
    /\ (Len(attempts) >= 1 /\ attempts[1].outcome = "ok") =>
          Len(attempts) = 1 /\ conn # "None"
    /\ BothBindsFailed => conn = "None"
    /\ out.kind = "bothFailed" => BothBindsFailed

\* both attempts of the users family failed and it declared total failure
C1_Witness ==
    /\ Current = "users"
    /\ BothBindsFailed
    /\ attempts[1].outcome = "LDAPSocketOpenError"
    /\ conn = "None"
    /\ out.kind = "bothFailed"

\* C2: whatever fails in a family, the run still attempts every family:
\* it never ends before the policy-detail family was called.
C2_SiblingsStillAttempted ==
    pc \in {"crashed", "done"} => fam = Len(Families)

\* C3: no family returns or raises while its session is still bound.
C3_ReleasedOnEveryExit == Exited => open = {}

\* the exceptions an attribute without a value raises in the projections
MissingAttributeErrors == {"LDAPKeyError", "LDAPCursorError", "TypeError"}

\* C4: an attribute that is absent on an entry never raises; the policy
\* block of the entry shows it as N/A or leaves its line out, and a users
\* row without sAMAccountName shows N/A.
C4_AbsentAttributeIsPlaceholder ==
    /\ exc \notin MissingAttributeErrors
    /\ out.kind = "blocks" =>
          \A i \in 1..Len(out.rows) : \A a \in DetailAttrs :
              ~InAndTruthy(entries[i], a) =>
                  out.rows[i][a].text \in {"N/A", "omitted"}

\* C5: at most one session is open, it is the current family's, and none
\* is open while a family is being called or is binding.
C5_OneSessionAtATime ==
    /\ Cardinality(open) <= 1
    /\ open \subseteq {fam}
    /\ pc \in {"main", "bind389", "bind636"} => open = {}
    /\ (pc = "returned" /\ fam < Len(Families)) => open = {}

\* the policy-detail family holds the only session, the families before it
\* having run
C5_Witness ==
    /\ Current = "details"
    /\ pc = "project"
    /\ conn = "bound"
    /\ open = {fam}

\* C6: a family both of whose binds failed returns at once: no search, no
\* entries read, nothing printed but the failure, no call on None; and a
\* search is only ever issued on a bound session.
C6_NoWorkWithoutSession ==
    /\ BothBindsFailed =>
          /\ pc \in {"returned", "done"}
          /\ conn = "None"
          /\ searchResult = "none" /\ entries = <<>> /\ idx = 0
          /\ results = <<>>
          /\ out = [kind |-> "bothFailed", rows |-> <<>>]
    /\ searchResult # "none" =>
          /\ conn \in {"bound", "closed"}
          /\ attempts[Len(attempts)].outcome = "ok"
    /\ pc \in {"search", "project"} => conn = "bound"
    /\ exc # "AttributeError"

\* the policy-detail family returned after both of its binds failed
C6_Witness ==
    /\ Current = "details"
    /\ BothBindsFailed
    /\ pc = "returned"
    /\ searchResult = "none"
    /\ out.kind = "bothFailed"

\* the entries of the users search that carry a resultant PSO, in order
WithPso(es) == SelectSeq(es, LAMBDA e : InAndTruthy(e, "msDS-ResultantPSO"))

\* C8: once the users search has returned its entries, the users family
\* ends with a table of exactly one row per entry carrying a resultant
\* PSO, in the order of the entries.
C8_UsersRowsFollowEntries ==
    (Current = "users" /\ searchResult # "none" /\ Exited) =>
        /\ out.kind = "table"
        /\ Len(out.rows) = Len(WithPso(entries))
        /\ \A i \in 1..Len(out.rows) :
              /\ CNPrefix \o out.rows[i].pso \o <<",">> \o DnTail
                    = Value(WithPso(entries)[i], "msDS-ResultantPSO")
              /\ In(WithPso(entries)[i], "sAMAccountName") =>
                    out.rows[i].name
                        = Value(WithPso(entries)[i], "sAMAccountName")

---------------------------------------------------------------------------
(* Properties of clock (ClockSpec), of the search base (BaseSpec) and of   *)
(* the PSO name (PsoSpec).                                                 *)

\* C7: for nano <= 0, clock(nano) prints the decomposition of
\* S = |nano| div 10,000,000 into days, hours, minutes and seconds.
C7_ClockDecomposesWholeSeconds ==
    pc = "decoded" =>
        /\ clockOut.days = nanoSec \div 86400
        /\ clockOut.hours = (nanoSec % 86400) \div 3600
        /\ clockOut.minutes = (nanoSec % 3600) \div 60
        /\ clockOut.seconds = nanoSec % 60

\* the domain a search base stands for: the DC= prefixes stripped and the
\* components rejoined with '.'
DomainOf(b) ==
    LET comps == Split(b, ",")
    IN  Join([i \in 1..Len(comps) |-> SubSeq(comps[i], 4, Len(comps[i]))],
             <<".">>)

\* C10: base_creator and the inline form give the same base, every
\* component of it is DC=<label> for the labels of the domain in order, and
\* stripping the prefixes and rejoining with '.' gives the domain back.
C10_SearchBaseRoundTrip ==
    pc = "derived" =>
        LET comps == Split(base, ",")
            labels == Split(domain, ".")
        IN  /\ base = inlineBase
            /\ Len(comps) = Len(labels)
            /\ \A i \in 1..Len(comps) : comps[i] = DCPrefix \o labels[i]
            /\ DomainOf(base) = domain
            /\ DomainOf(inlineBase) = domain

\* a.b was derived to DC=a,DC=b
C10_Witness ==
    /\ pc = "derived"
    /\ domain = <<"a", ".", "b">>
    /\ base = <<"D","C","=","a",",","D","C","=","b">>
    /\ inlineBase = base

\* C9: the PSO name extracted from CN=<name>,<rest> is <name>.
C9_PsoNameIsFirstRdnValue ==
    pc \in {"extracted", "crashed"} => psoName = dnName

============================================================================
